---- MODULE Spec2Model ----
(***************************************************************************)
(* Messaging safety skill: the rule engine of src/lib/validator.ts         *)
(* (MessageValidator) and the pre-send hook that calls it.                 *)
(*                                                                         *)
(* Strings are sequences of symbols.  Message contents are sequences of    *)
(* UTF-16 code units (one-character strings); type paths, reasons and      *)
(* rule keys are sequences of atoms, where the atom "." is the only one    *)
(* that holds a dot.  Destination ids and names are atomic strings.        *)
(***************************************************************************)
EXTENDS Integers, Sequences, FiniteSets, TLC

VARIABLES
    rules,      \* MessageValidator.rules: the rule table given to the constructor
    lastIndex,  \* lastIndex of every RegExp object of rules.detectionRules
    pc,         \* "idle", or the operation whose call record is held
    call,       \* the arguments of the operation that ran last
    locals,     \* validate's local constants detectedType and rule in that call
    ret,        \* what that operation returned
    hook,       \* the invocation of preMessageSend in flight
    bossLog,    \* confirmation requests sendToBoss took from the invocation in flight
    rulesFile   \* the lines of config/rules.yaml, the RULES_FILE of the scripts

vars == <<rules, lastIndex, pc, call, locals, ret, hook, bossLog, rulesFile>>

-----------------------------------------------------------------------------
(* Bounds of the model *)

\* longest destination-pattern list of a rule
MaxList == 1
\* longest message content handed to formatConfirmation
MaxContent == 102
\* most lines of rules.yaml after an add
MaxLines == 16
\* number of fragments a message content is assembled from
MaxFrags == 2
\* number of atoms of a type path handed to findRule
MaxPath == 5

-----------------------------------------------------------------------------
(* Strings *)

Min(a, b) == IF a < b THEN a ELSE b

LowerChar(c) ==
    CASE c = "A" -> "a" [] c = "B" -> "b" [] c = "C" -> "c" [] c = "D" -> "d"
      [] c = "E" -> "e" [] c = "F" -> "f" [] c = "G" -> "g" [] c = "H" -> "h"
      [] c = "I" -> "i" [] c = "J" -> "j" [] c = "K" -> "k" [] c = "L" -> "l"
      [] c = "M" -> "m" [] c = "N" -> "n" [] c = "O" -> "o" [] c = "P" -> "p"
      [] c = "Q" -> "q" [] c = "R" -> "r" [] c = "S" -> "s" [] c = "T" -> "t"
      [] c = "U" -> "u" [] c = "V" -> "v" [] c = "W" -> "w" [] c = "X" -> "x"
      [] c = "Y" -> "y" [] c = "Z" -> "z" [] OTHER -> c

\* String.prototype.toLowerCase
ToLowerCase(s) == [i \in 1..Len(s) |-> LowerChar(s[i])]

\* the 0-based index of the first occurrence of sub in s at or after from, or -1
IndexOfFrom(s, sub, from) ==
    LET hits == {k \in from..(Len(s) - Len(sub)) :
                    SubSeq(s, k + 1, k + Len(sub)) = sub}
    IN  IF hits = {} THEN -1 ELSE CHOOSE k \in hits : \A m \in hits : k <= m

\* String.prototype.includes
Includes(s, sub) == \E k \in 0..(Len(s) - Len(sub)) : SubSeq(s, k + 1, k + Len(sub)) = sub

\* String.prototype.split, as a sequence of segments
RECURSIVE Split(_, _)
Split(s, sep) ==
    LET at == IndexOfFrom(s, <<sep>>, 0)
    IN  IF at = -1 THEN <<s>>
        ELSE <<SubSeq(s, 1, at)>> \o Split(SubSeq(s, at + 2, Len(s)), sep)

RECURSIVE Concat(_)
Concat(ss) == IF ss = <<>> THEN <<>> ELSE Head(ss) \o Concat(Tail(ss))

-----------------------------------------------------------------------------
(* The keyword table of detectMessageType's fallback *)

KwDigest == <<"d","i","g","e","s","t">>
\* the robot-arm emoji U+1F9BE, two UTF-16 code units
KwRobotArm == <<"\\uD83E","\\uDDBE">>
KwReminder == <<"r","e","m","i","n","d","e","r">>
KwDontForget == <<"d","o","n","'","t"," ","f","o","r","g","e","t">>
KwReplyingTo == <<"r","e","p","l","y","i","n","g"," ","t","o">>
KwInResponseTo == <<"i","n"," ","r","e","s","p","o","n","s","e"," ","t","o">>
KwRevenue == <<"r","e","v","e","n","u","e">>
KwBusiness == <<"b","u","s","i","n","e","s","s">>

TypeDigestAny == <<"digest", ".", "*">>
TypeReminderAny == <<"reminder", ".", "*">>
TypeReplyAny == <<"reply", ".", "*">>
TypeBusinessAny == <<"business", ".", "*">>
TypeUnknown == <<"unknown">>

\* the reminder keywords looked for before the digest keywords
KeywordFallbackReminderFirst(lowerContent) ==
    IF Includes(lowerContent, KwReminder) \/ Includes(lowerContent, KwDontForget)
    THEN TypeReminderAny
    ELSE IF Includes(lowerContent, KwDigest) \/ Includes(lowerContent, KwRobotArm)
    THEN TypeDigestAny
    ELSE IF Includes(lowerContent, KwReplyingTo) \/ Includes(lowerContent, KwInResponseTo)
    THEN TypeReplyAny
    ELSE IF Includes(lowerContent, KwRevenue) \/ Includes(lowerContent, KwBusiness)
    THEN TypeBusinessAny
    ELSE TypeUnknown

\* validator.ts:30-44, the keyword detection on the lower-cased content
KeywordFallback(lowerContent) ==
    IF Includes(lowerContent, KwDigest) \/ Includes(lowerContent, KwRobotArm)
    THEN TypeDigestAny
    ELSE IF Includes(lowerContent, KwReminder) \/ Includes(lowerContent, KwDontForget)
    THEN TypeReminderAny
    ELSE IF Includes(lowerContent, KwReplyingTo) \/ Includes(lowerContent, KwInResponseTo)
    THEN TypeReplyAny
    ELSE IF Includes(lowerContent, KwRevenue) \/ Includes(lowerContent, KwBusiness)
    THEN TypeBusinessAny
    ELSE TypeUnknown

-----------------------------------------------------------------------------
(* RegExp.prototype.test for a pattern [source, global]: a literal source,  *)
(* with or without the g flag.  With g the search starts at lastIndex,      *)
(* a match moves lastIndex to its end and a failure resets it to 0;         *)
(* without g the search starts at 0 and lastIndex is left alone.            *)

RegExpTest(pattern, content, li) ==
    LET from == IF pattern.global THEN li ELSE 0
        at   == IF from > Len(content) THEN -1
                ELSE IndexOfFrom(content, pattern.source, from)
    IN  [ok |-> at # -1,
         lastIndex |-> IF ~pattern.global THEN li
                       ELSE IF at = -1 THEN 0
                       ELSE at + Len(pattern.source)]

\* the pattern matches the content somewhere (a fresh search from index 0)
Matches(pattern, content) == Includes(content, pattern.source)

\* the RegExp objects of the table in iteration order: <<rule index, pattern index>>
RECURSIVE PatternOrderFrom(_, _, _)
PatternOrderFrom(dr, i, j) ==
    IF i > Len(dr) THEN <<>>
    ELSE IF j > Len(dr[i].patterns) THEN PatternOrderFrom(dr, i + 1, 1)
    ELSE <<(<<i, j>>)>> \o PatternOrderFrom(dr, i, j + 1)

PatternOrder(dr) == PatternOrderFrom(dr, 1, 1)

\* validator.ts:22-28, the loops over detection rules and their patterns
RECURSIVE DetectionScan(_, _, _, _)
DetectionScan(dr, order, content, li) ==
    IF order = <<>> THEN [matched |-> FALSE, type |-> <<>>, lastIndex |-> li]
    ELSE LET ij == Head(order)
             t  == RegExpTest(dr[ij[1]].patterns[ij[2]], content, li[ij])
             li2 == [li EXCEPT ![ij] = t.lastIndex]
         IN  IF t.ok
             THEN [matched |-> TRUE, type |-> dr[ij[1]].classifyAs, lastIndex |-> li2]
             ELSE DetectionScan(dr, Tail(order), content, li2)

\* MessageValidator.detectMessageType: the type, and the lastIndex values it leaves
DetectMessageType(table, li, content) ==
    LET lowerContent == ToLowerCase(content)
        scan == DetectionScan(table.detectionRules,
                              PatternOrder(table.detectionRules), content, li)
    IN  IF scan.matched THEN [type |-> scan.type, lastIndex |-> scan.lastIndex]
        ELSE [type |-> KeywordFallback(lowerContent), lastIndex |-> scan.lastIndex]

-----------------------------------------------------------------------------
(* Rule lookup *)

Wildcard == <<"*">>

\* String.prototype.split('.') followed by parts[0] and parts[1] || '*'
ParseMessageType(typePath) ==
    LET parts == Split(typePath, ".")
    IN  [category |-> parts[1],
         subtype  |-> IF Len(parts) >= 2 /\ parts[2] # <<>> THEN parts[2] ELSE Wildcard]

\* the null of findRule
NoRule == [null |-> TRUE]

\* a third tier: the rule '*' of a category '*' when the category has none
FindRuleGlobalDefault(table, typePath) ==
    LET parsed == ParseMessageType(typePath)
        category == parsed.category
        subtype == parsed.subtype
        global == IF Wildcard \in DOMAIN table.messageTypes
                     /\ Wildcard \in DOMAIN table.messageTypes[Wildcard]
                  THEN table.messageTypes[Wildcard][Wildcard] ELSE NoRule
    IN  IF category \notin DOMAIN table.messageTypes THEN global
        ELSE LET categoryRules == table.messageTypes[category]
             IN  IF subtype # Wildcard /\ subtype \in DOMAIN categoryRules
                 THEN categoryRules[subtype]
                 ELSE IF Wildcard \in DOMAIN categoryRules
                 THEN categoryRules[Wildcard]
                 ELSE global

\* MessageValidator.findRule
FindRule(table, typePath) ==
    LET parsed == ParseMessageType(typePath)
        category == parsed.category
        subtype == parsed.subtype
    IN  IF category \notin DOMAIN table.messageTypes THEN NoRule
        ELSE LET categoryRules == table.messageTypes[category]
             IN  IF subtype # Wildcard /\ subtype \in DOMAIN categoryRules
                 THEN categoryRules[subtype]
                 ELSE IF Wildcard \in DOMAIN categoryRules
                 THEN categoryRules[Wildcard]
                 ELSE NoRule

\* MessageValidator.matchesDestination
MatchesDestination(destId, pattern) ==
    IF pattern = "*" THEN TRUE ELSE destId = pattern

\* MessageValidator.isDestinationInList
IsDestinationInList(destId, list) ==
    \E i \in 1..Len(list) : MatchesDestination(destId, list[i])

\* MessageValidator.getDestinationName: dest?.name || destId
GetDestinationName(table, destId) ==
    IF destId \in DOMAIN table.destinations /\ table.destinations[destId].name # ""
    THEN table.destinations[destId].name
    ELSE destId

-----------------------------------------------------------------------------
(* MessageValidator.validate.  A context is [content, destination, isReply] *)
(* with isReply one of "true", "false", "undefined" (the field is optional).*)
(* A result holds exactly the fields the returned object literal holds; a   *)
(* suggestedDestination of undefined (allowedIn[0] of an empty list) is     *)
(* left out.                                                                *)

Falsy(isReply) == isReply # "true"

MatchedRuleOf(typePath) ==
    ParseMessageType(typePath).category \o <<".">> \o ParseMessageType(typePath).subtype

OverrideResult ==
    [allowed |-> TRUE, action |-> "allow", reason |-> <<"Override code used">>]

\* allowed following the configured default action
UnknownTypeFollowsDefault(table, detectedType) ==
    [allowed |-> table.defaults.unknownMessageType.action = "allow",
     action |-> table.defaults.unknownMessageType.action,
     reason |-> <<"No rules for message type: ">> \o detectedType,
     messageType |-> detectedType,
     needsConfirmation |-> TRUE]

\* validator.ts:129-135
UnknownTypeResult(table, detectedType) ==
    [allowed |-> FALSE,
     action |-> table.defaults.unknownMessageType.action,
     reason |-> <<"No rules for message type: ">> \o detectedType,
     messageType |-> detectedType,
     needsConfirmation |-> TRUE]

\* allowed following the configured default action for unknown destinations
UnknownDestinationFollowsDefault(table, detectedType, destination) ==
    [allowed |-> table.defaults.unknownDestination.action = "allow",
     action |-> table.defaults.unknownDestination.action,
     reason |-> <<"Unknown destination: ", destination>>,
     messageType |-> detectedType,
     needsConfirmation |-> TRUE]

UnknownDestinationResult(table, detectedType, destination) ==
    [allowed |-> FALSE,
     action |-> table.defaults.unknownDestination.action,
     reason |-> <<"Unknown destination: ", destination>>,
     messageType |-> detectedType,
     needsConfirmation |-> TRUE]

\* the generated reason given also when the rule states its own
BlockedResultGeneratedReason(table, rule, detectedType, destination) ==
    [allowed |-> FALSE,
     action |-> "block",
     reason |-> detectedType \o <<" is blocked in ", GetDestinationName(table, destination)>>,
     messageType |-> detectedType,
     needsConfirmation |-> TRUE]

BlockedResult(table, rule, detectedType, destination) ==
    LET base == [allowed |-> FALSE,
                 action |-> "block",
                 reason |-> IF rule.reason # <<>> THEN rule.reason
                            ELSE detectedType \o <<" is blocked in ",
                                     GetDestinationName(table, destination)>>,
                 messageType |-> detectedType,
                 matchedRule |-> MatchedRuleOf(detectedType),
                 needsConfirmation |-> TRUE]
    IN  IF rule.allowedIn = <<>> THEN base
        ELSE base @@ [suggestedDestination |-> rule.allowedIn[1]]

ConfirmationResult(table, detectedType, destination) ==
    [allowed |-> FALSE,
     action |-> "ask",
     reason |-> <<GetDestinationName(table, destination),
                  " requires confirmation for ">> \o detectedType,
     messageType |-> detectedType,
     matchedRule |-> MatchedRuleOf(detectedType),
     needsConfirmation |-> TRUE]

AllowedResult(detectedType) ==
    [allowed |-> TRUE,
     action |-> "allow",
     messageType |-> detectedType,
     matchedRule |-> MatchedRuleOf(detectedType)]

\* a destination that no list of the rule names, blocked instead of asked about
DefaultBlockResult(table, detectedType, destination) ==
    [allowed |-> FALSE,
     action |-> "block",
     reason |-> detectedType \o <<" not explicitly allowed in ",
                    GetDestinationName(table, destination)>>,
     messageType |-> detectedType,
     needsConfirmation |-> FALSE]

DefaultAskResult(table, detectedType, destination) ==
    [allowed |-> FALSE,
     action |-> "ask",
     reason |-> detectedType \o <<" not explicitly allowed in ",
                    GetDestinationName(table, destination)>>,
     messageType |-> detectedType,
     needsConfirmation |-> TRUE]

\* the blocked check made first, before the destination is looked up
DecideBlockedBeforeUnknown(table, rule, detectedType, destination, isReply) ==
    IF IsDestinationInList(destination, rule.blockedIn)
    THEN BlockedResult(table, rule, detectedType, destination)
    ELSE IF destination \notin DOMAIN table.destinations
    THEN UnknownDestinationResult(table, detectedType, destination)
    ELSE IF Falsy(isReply) /\ IsDestinationInList(destination, rule.requiresConfirmation)
    THEN ConfirmationResult(table, detectedType, destination)
    ELSE IF IsDestinationInList(destination, rule.allowedIn)
    THEN AllowedResult(detectedType)
    ELSE DefaultAskResult(table, detectedType, destination)

\* the allowed check made before the blocked check
DecideAllowedBeforeBlocked(table, rule, detectedType, destination, isReply) ==
    IF destination \notin DOMAIN table.destinations
    THEN UnknownDestinationResult(table, detectedType, destination)
    ELSE IF IsDestinationInList(destination, rule.allowedIn)
    THEN AllowedResult(detectedType)
    ELSE IF IsDestinationInList(destination, rule.blockedIn)
    THEN BlockedResult(table, rule, detectedType, destination)
    ELSE IF Falsy(isReply) /\ IsDestinationInList(destination, rule.requiresConfirmation)
    THEN ConfirmationResult(table, detectedType, destination)
    ELSE DefaultAskResult(table, detectedType, destination)

\* the confirmation check made for replies too
DecideConfirmingReplies(table, rule, detectedType, destination, isReply) ==
    IF destination \notin DOMAIN table.destinations
    THEN UnknownDestinationResult(table, detectedType, destination)
    ELSE IF IsDestinationInList(destination, rule.blockedIn)
    THEN BlockedResult(table, rule, detectedType, destination)
    ELSE IF IsDestinationInList(destination, rule.requiresConfirmation)
    THEN ConfirmationResult(table, detectedType, destination)
    ELSE IF IsDestinationInList(destination, rule.allowedIn)
    THEN AllowedResult(detectedType)
    ELSE DefaultAskResult(table, detectedType, destination)

\* the allowed check made before the confirmation check
DecideAllowedBeforeConfirmation(table, rule, detectedType, destination, isReply) ==
    IF destination \notin DOMAIN table.destinations
    THEN UnknownDestinationResult(table, detectedType, destination)
    ELSE IF IsDestinationInList(destination, rule.blockedIn)
    THEN BlockedResult(table, rule, detectedType, destination)
    ELSE IF IsDestinationInList(destination, rule.allowedIn)
    THEN AllowedResult(detectedType)
    ELSE IF Falsy(isReply) /\ IsDestinationInList(destination, rule.requiresConfirmation)
    THEN ConfirmationResult(table, detectedType, destination)
    ELSE DefaultAskResult(table, detectedType, destination)

\* validator.ts:138-191, the checks made once a rule is found
DecideWithRule(table, rule, detectedType, destination, isReply) ==
    IF destination \notin DOMAIN table.destinations
    THEN UnknownDestinationResult(table, detectedType, destination)
    ELSE IF IsDestinationInList(destination, rule.blockedIn)
    THEN BlockedResult(table, rule, detectedType, destination)
    ELSE IF Falsy(isReply) /\ IsDestinationInList(destination, rule.requiresConfirmation)
    THEN ConfirmationResult(table, detectedType, destination)
    ELSE IF IsDestinationInList(destination, rule.allowedIn)
    THEN AllowedResult(detectedType)
    ELSE DefaultAskResult(table, detectedType, destination)

\* the local constants of a call that did not reach them
NoLocals == [detectedType |-> <<>>, rule |-> NoRule]

\* validator.ts:120-191, validate past the override check.  detectedType and
\* rule are the local constants of the call.
ValidateChecked(table, li, context) ==
    LET det == DetectMessageType(table, li, context.content)
        detectedType == det.type
        rule == FindRule(table, detectedType)
    IN  [result |-> IF rule = NoRule
                    THEN UnknownTypeResult(table, detectedType)
                    ELSE DecideWithRule(table, rule, detectedType,
                                        context.destination, context.isReply),
         lastIndex |-> det.lastIndex,
         locals |-> [detectedType |-> detectedType, rule |-> rule]]

\* the override honoured only for destinations of the table
ValidateOverrideKnownOnly(table, li, context) ==
    IF /\ Includes(context.content, table.overrideCode)
       /\ context.destination \in DOMAIN table.destinations
    THEN [result |-> OverrideResult, lastIndex |-> li, locals |-> NoLocals]
    ELSE ValidateChecked(table, li, context)

\* MessageValidator.validate: the result, the lastIndex values it leaves, and
\* the local constants it computed (none when the override code returns early)
Validate(table, li, context) ==
    IF Includes(context.content, table.overrideCode)
    THEN [result |-> OverrideResult, lastIndex |-> li, locals |-> NoLocals]
    ELSE ValidateChecked(table, li, context)

-----------------------------------------------------------------------------
(* MessageValidator.formatConfirmation *)

PreviewLength == 100

Field(result, name) == IF name \in DOMAIN result THEN result[name] ELSE <<"undefined">>

\* the ellipsis added from the preview length on, not only above it
PreviewEllipsisAtLength(content) ==
    SubSeq(content, 1, Min(PreviewLength, Len(content)))
        \o (IF Len(content) >= PreviewLength THEN <<".", ".", ".">> ELSE <<>>)

Preview(content) ==
    SubSeq(content, 1, Min(PreviewLength, Len(content)))
        \o (IF Len(content) > PreviewLength THEN <<".", ".", ".">> ELSE <<>>)

FormatConfirmation(table, context, result) ==
    <<"\\u26A0\\uFE0F **Send Confirmation Required**\n\n">>
    \o <<"**To:** ", GetDestinationName(table, context.destination), "\n">>
    \o <<"**Type:** ">> \o Field(result, "messageType") \o <<"\n">>
    \o <<"**Reason:** ">> \o Field(result, "reason") \o <<"\n\n">>
    \o <<"**Message:**\n">> \o Preview(context.content) \o <<"\n\n">>
    \o (IF "suggestedDestination" \in DOMAIN result /\ result.suggestedDestination # ""
        THEN <<"**Suggested:** ",
               GetDestinationName(table, result.suggestedDestination), "\n\n">>
        ELSE <<>>)
    \o <<"Reply **YES** to send, **NO** to cancel.">>

-----------------------------------------------------------------------------
(* Rule tables and inputs the model ranges over *)

Actions == {"allow", "block", "ask"}

Destinations == ("boss_dm" :> [name |-> "Boss"]) @@ ("work_group" :> [name |-> ""])

\* destination ids a context may name: two of the table, one that is not in it
DestinationIds == {"boss_dm", "work_group", "nowhere"}

\* what a rule's lists may hold: an exact id or the wildcard
PatternTokens == {"boss_dm", "*"}

RECURSIVE SeqsUpTo(_, _)
SeqsUpTo(S, n) ==
    IF n = 0 THEN {<<>>}
    ELSE SeqsUpTo(S, n - 1) \cup
         {Append(q, x) : q \in {r \in SeqsUpTo(S, n - 1) : Len(r) = n - 1}, x \in S}

PatternLists == SeqsUpTo(PatternTokens, MaxList)

OverrideCode == <<"#","G","O">>

FragHi == <<"h","i"," ">>
FragReddit == <<"r","/","x"," ">>
FragMoney == <<"$","9"," ">>
FragUpperBusiness == <<"B","u","s","i","n","e","s","s">>

Pattern(source, global) == [source |-> source, global |-> global]

RedditRule(global) ==
    [name |-> "reddit_content",
     patterns |-> <<Pattern(<<"r","/">>, global)>>,
     classifyAs |-> <<"digest", ".", "reddit">>]

MoneyRule(global) ==
    [name |-> "money",
     patterns |-> <<Pattern(<<"$">>, global), Pattern(KwRevenue, global)>>,
     classifyAs |-> <<"business", ".", "revenue">>]

Rule(allowedIn, blockedIn, requiresConfirmation, reason) ==
    [allowedIn |-> allowedIn, blockedIn |-> blockedIn,
     requiresConfirmation |-> requiresConfirmation, reason |-> reason]

\* the same lists in other roles, so that two rules of one table differ
Rotated(r) == Rule(r.requiresConfirmation, r.allowedIn, r.blockedIn, <<>>)

Table(messageTypes, detectionRules, unknownType, unknownDest) ==
    [version |-> "1.0",
     destinations |-> Destinations,
     messageTypes |-> messageTypes,
     detectionRules |-> detectionRules,
     defaults |-> [unknownMessageType |-> [action |-> unknownType],
                   unknownDestination |-> [action |-> unknownDest]],
     overrideCode |-> OverrideCode]

\* digest.* is the rule r, digest.reddit its rotation, business has the one
\* subtype revenue and no wildcard; reminder, reply and unknown have no rules
RuleTables ==
    { Table((<<"digest">> :> ((Wildcard :> r) @@ (<<"reddit">> :> Rotated(r))))
              @@ (<<"business">> :> (<<"revenue">> :> r)),
            <<RedditRule(FALSE), MoneyRule(FALSE)>>,
            d[1], d[2]) :
        r \in { Rule(a, b, c, why) : a \in PatternLists, b \in PatternLists,
                                      c \in PatternLists,
                                      why \in {<<>>, <<"keep it private">>} },
        d \in {<<"allow", "block">>, <<"block", "ask">>, <<"ask", "allow">>} }

\* message contents of the validate calls
ValidateContents ==
    { KwDigest, FragReddit \o KwDigest, FragMoney, KwRevenue, FragUpperBusiness,
      KwReminder, FragHi, FragHi \o OverrideCode, OverrideCode \o KwDigest }

Contexts ==
    [content : ValidateContents, destination : DestinationIds,
     isReply : {"true", "false", "undefined"}]

FreshLastIndex(table) ==
    [ij \in {PatternOrder(table.detectionRules)[k] :
                k \in 1..Len(PatternOrder(table.detectionRules))} |-> 0]

\* no invocation of preMessageSend in flight
NoHook == [state |-> "idle", context |-> <<>>, result |-> <<>>, threw |-> "none", out |-> <<>>]

-----------------------------------------------------------------------------
(* The validator as a state machine: a call runs to completion and leaves   *)
(* its arguments and its return value; Discard drops them (contexts and     *)
(* results are created and discarded per call).                             *)

InitWith(tables) ==
    /\ rules \in tables
    /\ lastIndex = FreshLastIndex(rules)
    /\ pc = "idle"
    /\ call = <<>>
    /\ locals = NoLocals
    /\ ret = <<>>
    /\ hook = NoHook
    /\ bossLog = <<>>
    /\ rulesFile = <<>>

ValidateCall(context) ==
    /\ pc = "idle"
    /\ LET r == Validate(rules, lastIndex, context)
       IN  /\ ret' = r.result
           /\ lastIndex' = r.lastIndex
           /\ locals' = r.locals
    /\ pc' = "validate"
    /\ call' = context
    /\ UNCHANGED <<rules, hook, bossLog, rulesFile>>

Discard ==
    /\ pc # "idle"
    /\ pc' = "idle"
    /\ call' = <<>>
    /\ locals' = NoLocals
    /\ ret' = <<>>
    /\ UNCHANGED <<rules, lastIndex, hook, bossLog, rulesFile>>

Init == InitWith(RuleTables)

Next ==
    \/ \E context \in Contexts : ValidateCall(context)
    \/ Discard

Spec == Init /\ [][Next]_vars

-----------------------------------------------------------------------------
(* Properties of validate, checked under Spec *)

\* a validate call has returned and no override code was in its content
Validated == pc = "validate" /\ ~Includes(call.content, rules.overrideCode)

\* the list holds the id itself or the wildcard
Listed(list, destId) == \E i \in DOMAIN list : list[i] = destId \/ list[i] = "*"

Known(destId) == destId \in DOMAIN rules.destinations

\* C1: a content that contains the override code is allowed with action allow
\* and reason "Override code used", whatever the destination, the type, the
\* rule lists and isReply are.
C1_OverrideAlwaysAllows ==
    (pc = "validate" /\ Includes(call.content, rules.overrideCode))
        => /\ ret.allowed = TRUE
           /\ ret.action = "allow"
           /\ ret.reason = <<"Override code used">>

\* an override sent to a destination the table does not know, for a type whose
\* rule blocks everywhere
C1_Witness ==
    /\ pc = "validate"
    /\ call.content = OverrideCode \o KwDigest
    /\ call.destination = "nowhere"
    /\ rules.messageTypes[<<"digest">>][Wildcard].blockedIn = <<"*">>
    /\ ret.allowed

\* C2: without the override code, for a found rule and a known destination that
\* matches blockedIn, the result is allowed=false, action=block, also when the
\* destination matches allowedIn or requiresConfirmation, whatever isReply is.
C2_BlockedPrecedes ==
    (Validated /\ locals.rule # NoRule /\ Known(call.destination)
        /\ Listed(locals.rule.blockedIn, call.destination))
        => ret.allowed = FALSE /\ ret.action = "block"

\* a reply to a destination that is in all three lists of the rule
C2_Witness ==
    /\ Validated /\ locals.rule # NoRule /\ Known(call.destination)
    /\ locals.rule.blockedIn = <<call.destination>>
    /\ Listed(locals.rule.allowedIn, call.destination)
    /\ Listed(locals.rule.requiresConfirmation, call.destination)
    /\ call.isReply = "true"
    /\ ret.action = "block"

\* C4: when no rule is found for the detected type, the result is
\* allowed=false, needsConfirmation=true and the action is the configured
\* unknown-message-type default, also when that default is allow.
C4_UnknownTypeDefault ==
    (Validated /\ locals.rule = NoRule)
        => /\ ret.allowed = FALSE
           /\ ret.needsConfirmation = TRUE
           /\ ret.action = rules.defaults.unknownMessageType.action
           /\ ret.action \in Actions

\* no rule, and the configured default is allow
C4_Witness ==
    /\ Validated /\ locals.rule = NoRule
    /\ rules.defaults.unknownMessageType.action = "allow"
    /\ ret.action = "allow" /\ ~ret.allowed

\* C5: with a rule found and a destination that is no key of the destinations
\* mapping, the result is allowed=false, needsConfirmation=true and the action
\* is the unknown-destination default, whatever the rule's lists hold; with no
\* rule and an unknown destination the unknown-message-type default is reported.
C5_UnknownDestinationDefault ==
    /\ (Validated /\ locals.rule # NoRule /\ ~Known(call.destination))
        => /\ ret.allowed = FALSE
           /\ ret.needsConfirmation = TRUE
           /\ ret.action = rules.defaults.unknownDestination.action
           /\ ret.reason = <<"Unknown destination: ", call.destination>>
    /\ (Validated /\ locals.rule = NoRule /\ ~Known(call.destination))
        => /\ ret.action = rules.defaults.unknownMessageType.action
           /\ ret.reason = <<"No rules for message type: ">> \o locals.detectedType

\* an unknown destination under a rule whose blockedIn is the wildcard
C5_Witness ==
    /\ Validated /\ locals.rule # NoRule /\ ~Known(call.destination)
    /\ locals.rule.blockedIn = <<"*">>
    /\ ret.action = rules.defaults.unknownDestination.action
    /\ ret.action # rules.defaults.unknownMessageType.action

\* the destination is known, not blocked and listed in requiresConfirmation
NeedsConfirmationCase ==
    /\ Validated /\ locals.rule # NoRule /\ Known(call.destination)
    /\ ~Listed(locals.rule.blockedIn, call.destination)
    /\ Listed(locals.rule.requiresConfirmation, call.destination)

RequiresConfirmationReason ==
    <<GetDestinationName(rules, call.destination), " requires confirmation for ">>
        \o locals.detectedType

NotExplicitlyAllowedReason ==
    locals.detectedType \o <<" not explicitly allowed in ",
                             GetDestinationName(rules, call.destination)>>

\* C6: a reply never gets the confirmation-required result: in the
\* confirmation case it is allowed when the destination matches allowedIn and
\* gets the default ask otherwise; with isReply false or absent the action is ask.
C6_RepliesBypassConfirmation ==
    /\ (Validated /\ call.isReply = "true" /\ "reason" \in DOMAIN ret)
        => ret.reason # RequiresConfirmationReason
    /\ (NeedsConfirmationCase /\ call.isReply = "true")
        => IF Listed(locals.rule.allowedIn, call.destination)
           THEN ret.allowed = TRUE /\ ret.action = "allow"
           ELSE /\ ret.allowed = FALSE /\ ret.action = "ask"
                /\ ret.reason = NotExplicitlyAllowedReason
    /\ (NeedsConfirmationCase /\ call.isReply # "true") => ret.action = "ask"

\* a reply to a destination listed in requiresConfirmation and in allowedIn
C6_Witness ==
    /\ NeedsConfirmationCase /\ call.isReply = "true"
    /\ Listed(locals.rule.allowedIn, call.destination)
    /\ ret.action = "allow"

\* C7: a message that is no reply, in the confirmation case, gets
\* allowed=false, action=ask, a matchedRule and needsConfirmation=true, also
\* when the destination matches allowedIn.
C7_ConfirmationPrecedesAllowed ==
    (NeedsConfirmationCase /\ call.isReply # "true")
        => /\ ret.allowed = FALSE
           /\ ret.action = "ask"
           /\ "matchedRule" \in DOMAIN ret
           /\ ret.needsConfirmation = TRUE
           /\ ret.reason = RequiresConfirmationReason

\* no reply, and the destination is in requiresConfirmation and in allowedIn
C7_Witness ==
    /\ NeedsConfirmationCase /\ call.isReply = "undefined"
    /\ Listed(locals.rule.allowedIn, call.destination)
    /\ ret.action = "ask"

\* C13: with a known destination and a found rule, when the destination is in
\* none of blockedIn, requiresConfirmation (or the message is a reply) and
\* allowedIn, the result is allowed=false, action=ask, needsConfirmation=true.
C13_DefaultIsAsk ==
    (Validated /\ locals.rule # NoRule /\ Known(call.destination)
        /\ ~Listed(locals.rule.blockedIn, call.destination)
        /\ (~Listed(locals.rule.requiresConfirmation, call.destination)
              \/ call.isReply = "true")
        /\ ~Listed(locals.rule.allowedIn, call.destination))
        => /\ ret.allowed = FALSE
           /\ ret.action = "ask"
           /\ ret.needsConfirmation = TRUE
           /\ ret.reason = NotExplicitlyAllowedReason

\* a message, no reply, to a known destination under a rule with empty lists
C13_Witness ==
    /\ Validated /\ locals.rule # NoRule
    /\ call.destination = "work_group" /\ call.isReply = "false"
    /\ locals.rule.blockedIn = <<>>
    /\ locals.rule.requiresConfirmation = <<>>
    /\ locals.rule.allowedIn = <<>>
    /\ ret.action = "ask" /\ ~ret.allowed

\* the rule found has blocked a known destination
BlockedCase ==
    /\ Validated /\ locals.rule # NoRule /\ Known(call.destination)
    /\ Listed(locals.rule.blockedIn, call.destination)

C21_AllowedOnlyInTwoCases ==
    pc = "validate" =>
        /\ ret.allowed \in BOOLEAN
        /\ ret.allowed =>
              \/ Includes(call.content, rules.overrideCode)
              \/ /\ locals.rule # NoRule
                 /\ Known(call.destination)
                 /\ ~Listed(locals.rule.blockedIn, call.destination)
                 /\ Listed(locals.rule.allowedIn, call.destination)
                 /\ \/ call.isReply = "true"
                    \/ ~Listed(locals.rule.requiresConfirmation, call.destination)

\* a message allowed through its rule, without the override code, by a table
\* whose unknown-destination default is allow
C21_Witness ==
    /\ Validated /\ ret.allowed
    /\ Listed(locals.rule.allowedIn, call.destination)
    /\ rules.defaults.unknownDestination.action = "allow"

\* C24: a suggestedDestination of a block result is a destination at which
\* the same rule does not block the message: never the wildcard token '*',
\* never matched by the rule's blockedIn, never the destination just blocked.
C24_SuggestionIsNotBlocked ==
    (Validated /\ ret.action = "block" /\ "suggestedDestination" \in DOMAIN ret)
        => /\ ret.suggestedDestination # "*"
           /\ ~Listed(locals.rule.blockedIn, ret.suggestedDestination)
           /\ ret.suggestedDestination # call.destination

-----------------------------------------------------------------------------
(* findRule called on its own, over tables of every shape of the digest     *)
(* category, with and without a category '*' holding a rule '*'             *)

\* a rule that states its own key as its reason
Tagged(key) == Rule(<<"boss_dm">>, <<>>, <<>>, key)

DigestShapes ==
    { [k \in keys |-> Tagged(<<"digest", ".">> \o k)] : keys \in SUBSET {Wildcard, <<"reddit">>} }

FindTables ==
    { Table(mt, <<>>, "ask", "ask") :
        mt \in { g @@ d :
                   g \in { <<>>, Wildcard :> (Wildcard :> Tagged(<<"*", ".", "*">>)) },
                   d \in { <<>> } \cup { <<"digest">> :> shape : shape \in DigestShapes } } }

PathAtoms == {"digest", "reddit", ".", "*"}

TypePaths == SeqsUpTo(PathAtoms, MaxPath)

FindRuleCall(typePath) ==
    /\ pc = "idle"
    /\ pc' = "findRule"
    /\ call' = typePath
    /\ ret' = FindRule(rules, typePath)
    /\ UNCHANGED <<rules, lastIndex, locals, hook, bossLog, rulesFile>>

InitFind == InitWith(FindTables)

NextFind ==
    \/ \E typePath \in TypePaths : FindRuleCall(typePath)
    \/ Discard

SpecFind == InitFind /\ [][NextFind]_vars

-----------------------------------------------------------------------------
(* parseMessageType called on its own, over the same type paths *)

ParseMessageTypeCall(typePath) ==
    /\ pc = "idle"
    /\ pc' = "parseMessageType"
    /\ call' = typePath
    /\ ret' = ParseMessageType(typePath)
    /\ UNCHANGED <<rules, lastIndex, locals, hook, bossLog, rulesFile>>

NextParse ==
    \/ \E typePath \in TypePaths : ParseMessageTypeCall(typePath)
    \/ Discard

SpecParse == InitFind /\ [][NextParse]_vars

\* the number of dots of a type path
Dots(typePath) == Cardinality({i \in DOMAIN typePath : typePath[i] = "."})

\* C14: parseMessageType splits a type path at its first '.' only: the
\* category is the text before it and the subtype all the text after it; a
\* path without '.' has the subtype '*' (so 'unknown' gives 'unknown', '*').
C14_SplitAtFirstDot ==
    pc = "parseMessageType" =>
        LET at == IndexOfFrom(call, <<".">>, 0)
        IN  IF at = -1
            THEN ret = [category |-> call, subtype |-> Wildcard]
            ELSE ret = [category |-> SubSeq(call, 1, at),
                        subtype |-> SubSeq(call, at + 2, Len(call))]

\* the same, for the paths with at most one '.' that is not their last symbol
C14_SplitAtFirstDotOneDot ==
    (Dots(call) <= 1 /\ (call # <<>> => call[Len(call)] # ".")) => C14_SplitAtFirstDot

-----------------------------------------------------------------------------
(* detectMessageType called on its own, over tables whose detection rules   *)
(* are any sequence of the reddit and money rules, each with or without the *)
(* g flag on its patterns                                                   *)

DetectionRuleChoices == { RedditRule(g) : g \in BOOLEAN } \cup { MoneyRule(FALSE) }

\* every ordering of every subset of the rules
DetectionRuleLists ==
    { dr \in SeqsUpTo(DetectionRuleChoices, Cardinality(DetectionRuleChoices)) :
        \A i, j \in DOMAIN dr : i # j => dr[i] # dr[j] }

DetectTables ==
    { Table(<<"digest">> :> (Wildcard :> Tagged(TypeDigestAny)), dr, "ask", "ask") :
        dr \in DetectionRuleLists }

DetectFragments ==
    { KwDigest, KwRobotArm, KwReminder, KwDontForget, KwReplyingTo, KwInResponseTo,
      KwRevenue, FragUpperBusiness, FragReddit }

DetectContents == { Concat(fs) : fs \in SeqsUpTo(DetectFragments, MaxFrags) }

DetectCall(content) ==
    /\ pc = "idle"
    /\ LET d == DetectMessageType(rules, lastIndex, content)
       IN  /\ ret' = d.type
           /\ lastIndex' = d.lastIndex
    /\ pc' = "detectMessageType"
    /\ call' = content
    /\ UNCHANGED <<rules, locals, hook, bossLog, rulesFile>>

InitDetect == InitWith(DetectTables)

NextDetect ==
    \/ \E content \in DetectContents : DetectCall(content)
    \/ Discard

SpecDetect == InitDetect /\ [][NextDetect]_vars

\* the detection rule has a pattern that matches the content
RuleMatches(rule, content) ==
    \E j \in DOMAIN rule.patterns : Matches(rule.patterns[j], content)

\* the indexes of the detection rules that match the content
MatchingRules(content) ==
    { i \in DOMAIN rules.detectionRules : RuleMatches(rules.detectionRules[i], content) }

\* C9: detectMessageType returns the classifyAs of the first detection rule,
\* in table order, that has a pattern matching the content; when a detection
\* rule matches, the keyword fallback does not decide the type.
C9_FirstMatchingRuleWins ==
    (pc = "detectMessageType" /\ MatchingRules(call) # {})
        => \E i \in MatchingRules(call) :
              /\ \A k \in MatchingRules(call) : i <= k
              /\ ret = rules.detectionRules[i].classifyAs

\* the same, for tables none of whose patterns carries the g flag
NoGlobalPattern ==
    \A i \in DOMAIN rules.detectionRules : \A j \in DOMAIN rules.detectionRules[i].patterns :
        ~rules.detectionRules[i].patterns[j].global

C9_FirstMatchingRuleWinsWithoutG == NoGlobalPattern => C9_FirstMatchingRuleWins

Has(content, keyword) == Includes(ToLowerCase(content), keyword)

\* C10: when no detection rule matches, the type is decided by the keywords
\* found in the lower-cased content, in the order digest, reminder, reply,
\* business; a content with none of them is 'unknown'.
C10_KeywordPrecedence ==
    (pc = "detectMessageType" /\ MatchingRules(call) = {})
        => LET digest == Has(call, KwDigest) \/ Has(call, KwRobotArm)
               reminder == Has(call, KwReminder) \/ Has(call, KwDontForget)
               reply == Has(call, KwReplyingTo) \/ Has(call, KwInResponseTo)
               business == Has(call, KwRevenue) \/ Has(call, KwBusiness)
           IN  /\ digest => ret = <<"digest", ".", "*">>
               /\ (~digest /\ reminder) => ret = <<"reminder", ".", "*">>
               /\ (~digest /\ ~reminder /\ reply) => ret = <<"reply", ".", "*">>
               /\ (~digest /\ ~reminder /\ ~reply /\ business)
                     => ret = <<"business", ".", "*">>
               /\ (~digest /\ ~reminder /\ ~reply /\ ~business) => ret = <<"unknown">>

\* a content with a reminder keyword before a digest keyword, no rule matching
C10_Witness ==
    /\ pc = "detectMessageType"
    /\ rules.detectionRules # <<>>
    /\ call = KwDontForget \o KwDigest
    /\ ret = <<"digest", ".", "*">>

-----------------------------------------------------------------------------
(* The pre-send hook.  preMessageSend runs validate, formatConfirmation and *)
(* the call of sendToBoss in one step, up to its await; the step after the  *)
(* await returns.  A call that throws is an input of the step: fault names  *)
(* the call that throws (validate, formatConfirmation) or whose promise     *)
(* rejects (sendToBoss); hook.threw records it.  The try block spans all    *)
(* three calls, so the promise of preMessageSend is never rejected.         *)

Faults == {"none", "validate", "formatConfirmation", "sendToBoss"}

HookRules == (Wildcard :> Rule(<<"boss_dm">>, <<"work_group">>, <<>>, <<>>))
             @@ (<<"reddit">> :> Rule(<<"*">>, <<>>, <<"boss_dm">>, <<"ask first">>))

HookTables ==
    { Table((<<"digest">> :> HookRules)
              @@ (<<"business">> :> (<<"revenue">> :> Rule(<<>>, <<"*">>, <<>>, <<>>))),
            <<RedditRule(FALSE), MoneyRule(FALSE)>>, t, d) :
        t \in Actions, d \in Actions }

\* the catch block letting the message through
CatchFailOpen == [allow |-> TRUE]

\* part_003:55-62, the catch block of preMessageSend
CatchResult ==
    [allow |-> FALSE, reason |-> <<"Validation error - message blocked for safety">>]

Resolved(context, result, threw, out) ==
    [state |-> "resolved", context |-> context, result |-> result,
     threw |-> threw, out |-> out]

\* a dispatch that delivers nothing
SendToBossDropped(log, message) == log

\* part_003:65-69, the confirmation requests handed to the message API
SendToBoss(log, message) == Append(log, message)

PreMessageSend(context, fault) ==
    /\ hook.state = "idle"
    /\ pc = "idle"
    /\ LET v == Validate(rules, lastIndex, context)
           result == v.result
       IN  IF fault = "validate"
           THEN /\ hook' = Resolved(context, <<>>, fault, CatchResult)
                /\ lastIndex' \in {lastIndex, v.lastIndex}
                /\ UNCHANGED bossLog
           ELSE /\ lastIndex' = v.lastIndex
                /\ fault # "none" => result.action = "ask"
                /\ IF result.action = "allow"
                   THEN /\ hook' = Resolved(context, result, fault, [allow |-> TRUE])
                        /\ UNCHANGED bossLog
                   ELSE IF result.action = "block"
                   THEN /\ hook' = Resolved(context, result, fault,
                                       [allow |-> FALSE, reason |-> result.reason])
                        /\ UNCHANGED bossLog
                   ELSE IF result.action = "ask"
                   THEN IF fault = "formatConfirmation"
                        THEN /\ hook' = Resolved(context, result, fault, CatchResult)
                             /\ UNCHANGED bossLog
                        ELSE /\ hook' = [state |-> "awaiting", context |-> context,
                                         result |-> result, threw |-> fault,
                                         out |-> <<>>]
                             /\ bossLog' =
                                  IF fault = "sendToBoss" THEN bossLog
                                  ELSE SendToBoss(bossLog,
                                                  FormatConfirmation(rules, context, result))
                   ELSE /\ hook' = Resolved(context, result, fault,
                                       [allow |-> FALSE,
                                        reason |-> <<"Unknown validation result">>])
                        /\ UNCHANGED bossLog
    /\ UNCHANGED <<rules, pc, call, locals, ret, rulesFile>>

\* the continuation after await sendToBoss(confirmMsg)
HookResume ==
    /\ hook.state = "awaiting"
    /\ hook' = Resolved(hook.context, hook.result, hook.threw,
                        IF hook.threw = "sendToBoss" THEN CatchResult
                        ELSE [allow |-> FALSE,
                              reason |-> <<"Confirmation required: ">> \o hook.result.reason])
    /\ UNCHANGED <<rules, lastIndex, pc, call, locals, ret, bossLog, rulesFile>>

\* the caller takes the resolved value
HookReturn ==
    /\ hook.state = "resolved"
    /\ hook' = NoHook
    /\ bossLog' = <<>>
    /\ UNCHANGED <<rules, lastIndex, pc, call, locals, ret, rulesFile>>

InitHook == InitWith(HookTables)

NextHook ==
    \/ \E context \in Contexts, fault \in Faults : PreMessageSend(context, fault)
    \/ HookResume
    \/ HookReturn

SpecHook == InitHook /\ [][NextHook]_vars

\* C3: when validate, formatConfirmation or the confirmation dispatch throws,
\* the hook resolves to allow=false with the validation-error reason; no
\* internal error makes it return allow=true, and the promise is not rejected.
C3_ErrorImpliesBlock ==
    /\ hook.state \in {"idle", "awaiting", "resolved"}
    /\ (hook.state = "resolved" /\ hook.threw # "none")
        => /\ hook.out.allow = FALSE
           /\ hook.out.reason = <<"Validation error - message blocked for safety">>

\* the dispatch of the confirmation request failed and the hook has resolved
C3_Witness ==
    /\ hook.state = "resolved"
    /\ hook.threw = "sendToBoss"
    /\ hook.result.action = "ask"
    /\ hook.out.allow = FALSE

\* C12: preMessageSend maps the action of validate to its decision: allow
\* gives allow=true and no confirmation request; block gives allow=false with
\* the result's reason and no confirmation request; ask formats exactly one
\* confirmation request, dispatches it before it returns, and returns
\* allow=false.
C12_ActionDecidesHook ==
    /\ (hook.state = "awaiting" /\ hook.threw = "none")
        => /\ hook.result.action = "ask"
           /\ bossLog = <<FormatConfirmation(rules, hook.context, hook.result)>>
    /\ (hook.state = "resolved" /\ hook.threw = "none")
        => /\ hook.result.action \in Actions
           /\ hook.result.action = "allow"
                => hook.out = [allow |-> TRUE] /\ bossLog = <<>>
           /\ hook.result.action = "block"
                => /\ hook.out = [allow |-> FALSE, reason |-> hook.result.reason]
                   /\ bossLog = <<>>
           /\ hook.result.action = "ask"
                => /\ hook.out.allow = FALSE
                   /\ hook.out.reason = <<"Confirmation required: ">> \o hook.result.reason
                   /\ bossLog = <<FormatConfirmation(rules, hook.context, hook.result)>>

\* the hook has returned after an ask: one confirmation request went out
C12_Witness ==
    /\ hook.state = "resolved" /\ hook.threw = "none"
    /\ hook.result.action = "ask"
    /\ Len(bossLog) = 1
    /\ hook.out.allow = FALSE

\* C22: preMessageSend returns allow=true only when the result it got from
\* validate has allowed=true, for every table (those whose unknown-type or
\* unknown-destination default is allow included) and every context.
C22_HookAllowsOnlyAllowed ==
    (hook.state = "resolved" /\ hook.out.allow)
        => /\ hook.threw = "none"
           /\ hook.result.allowed

\* the same, for the tables neither of whose defaults is allow
C22_HookAllowsOnlyAllowedNoAllowDefault ==
    (/\ rules.defaults.unknownMessageType.action # "allow"
     /\ rules.defaults.unknownDestination.action # "allow")
        => C22_HookAllowsOnlyAllowed

-----------------------------------------------------------------------------
(* validate called again and again on one validator whose table holds the   *)
(* reddit detection rule, with or without the g flag on its pattern         *)

RepeatRules == (Wildcard :> Rule(<<"boss_dm">>, <<>>, <<>>, <<>>))
               @@ (<<"reddit">> :> Rule(<<>>, <<"*">>, <<>>, <<>>))

RepeatTables ==
    { Table(<<"digest">> :> RepeatRules, <<RedditRule(g)>>, "ask", "ask") : g \in BOOLEAN }

InitRepeat == InitWith(RepeatTables)

NextRepeat ==
    \/ \E context \in Contexts : ValidateCall(context)
    \/ Discard

SpecRepeat == InitRepeat /\ [][NextRepeat]_vars

\* C11: validate is deterministic and idempotent: every call returns what the
\* first call of a freshly constructed validator returns for the same table
\* and context; no earlier call leaves state that changes the result.
C11_ValidateDeterministic ==
    pc = "validate" => ret = Validate(rules, FreshLastIndex(rules), call).result

\* the same, for tables none of whose patterns carries the g flag
C11_ValidateDeterministicWithoutG == NoGlobalPattern => C11_ValidateDeterministic

\* C17: no operation of the validator changes the rule table: after any
\* sequence of calls the destinations, message types, detection rules (the
\* RegExp objects of their patterns included), defaults and override code are
\* as the validator was constructed with.
C17_TableNeverChanges == [][rules' = rules /\ lastIndex' = lastIndex]_vars

\* the same, for the fields of the table other than the state of its RegExp
\* objects, and for the whole table when no pattern carries the g flag
C17_TableFieldsNeverChange ==
    [][rules' = rules /\ (NoGlobalPattern => lastIndex' = lastIndex)]_vars

-----------------------------------------------------------------------------
(* validate on tables whose digest category holds the rule '*' only, while  *)
(* the reddit detection rule classifies contents as digest.reddit           *)

WildcardOnlyTables ==
    { Table(<<"digest">> :> (Wildcard :> Rule(a, b, <<>>, <<>>)),
            <<RedditRule(FALSE)>>, "ask", "ask") :
        a \in PatternLists, b \in PatternLists }

InitWildcardOnly == InitWith(WildcardOnlyTables)

SpecWildcardOnly == InitWildcardOnly /\ [][Next]_vars

\* C23: whenever validate sets matchedRule, its value is the table key
\* category.subtype of the rule findRule returned; when the category's
\* wildcard rule is applied for a subtype without a rule of its own,
\* matchedRule is "<category>.*".
C23_MatchedRuleIsKeyOfRule ==
    (pc = "validate" /\ "matchedRule" \in DOMAIN ret)
        => \E category \in DOMAIN rules.messageTypes :
              \E key \in DOMAIN rules.messageTypes[category] :
                 /\ ret.matchedRule = category \o <<".">> \o key
                 /\ rules.messageTypes[category][key] = locals.rule

\* the same, for detected types whose subtype is a key of the category
C23_MatchedRuleIsKeyOfRuleExact ==
    (pc = "validate" /\ locals.rule # NoRule
       /\ ParseMessageType(locals.detectedType).subtype
             \in DOMAIN rules.messageTypes[ParseMessageType(locals.detectedType).category])
        => C23_MatchedRuleIsKeyOfRule

-----------------------------------------------------------------------------
(* formatConfirmation called on its own, for contents of every length up to *)
(* MaxContent code units and results with and without a suggestion          *)

RulerSymbols == <<"a", "b", "c", " ", "d", ".", "e">>

\* a content of n code units in which neighbouring positions differ
Ruler(n) == [i \in 1..n |-> RulerSymbols[(i % Len(RulerSymbols)) + 1]]

\* a content of n dots
Dotted(n) == [i \in 1..n |-> "."]

FormatContents == { Ruler(n) : n \in 0..MaxContent } \cup { Dotted(n) : n \in 0..MaxContent }

FormatResults(table, destination) ==
    { UnknownTypeResult(table, TypeUnknown),
      DefaultAskResult(table, TypeDigestAny, destination),
      BlockedResult(table, HookRules[Wildcard], TypeDigestAny, destination) }

FormatConfirmationCall(context, result) ==
    /\ pc = "idle"
    /\ pc' = "formatConfirmation"
    /\ call' = [context |-> context, result |-> result]
    /\ ret' = FormatConfirmation(rules, context, result)
    /\ UNCHANGED <<rules, lastIndex, locals, hook, bossLog, rulesFile>>

NextFormat ==
    \/ \E content \in FormatContents, destination \in DestinationIds :
          \E result \in FormatResults(rules, destination) :
             FormatConfirmationCall([content |-> content, destination |-> destination,
                                     isReply |-> "undefined"], result)
    \/ Discard

SpecFormat == InitRepeat /\ [][NextFormat]_vars

\* the part of a confirmation message between the line "**Message:**" and the
\* blank line that follows it
ContentPart(msg) ==
    LET m == CHOOSE i \in DOMAIN msg : msg[i] = "**Message:**\n"
        e == CHOOSE i \in (m + 1)..Len(msg) :
                /\ msg[i] = "\n\n"
                /\ \A k \in (m + 1)..(i - 1) : msg[k] # "\n\n"
    IN  SubSeq(msg, m + 1, e - 1)

\* C16: formatConfirmation embeds a content of at most 100 characters
\* unchanged and without an ellipsis, and of a longer content exactly the first
\* 100 characters followed by '...'; the content part is never longer than 103
\* characters and a content of exactly 100 is not truncated.
C16_PreviewTruncation ==
    pc = "formatConfirmation" =>
        LET content == call.context.content
            part == ContentPart(ret)
        IN  /\ Len(content) <= 100 => part = content
            /\ Len(content) > 100
                 => part = SubSeq(content, 1, 100) \o <<".", ".", ".">>
            /\ Len(part) <= 103

\* a content of 101 characters was formatted
C16_Witness ==
    /\ pc = "formatConfirmation"
    /\ Len(call.context.content) = 101
    /\ Len(ContentPart(ret)) = 103
    /\ "suggestedDestination" \in DOMAIN call.result

-----------------------------------------------------------------------------
(* config/rules.yaml as the scripts see it: a sequence of lines.  A line    *)
(* is [indent, key, value]: indent spaces, the key, a colon and, after one  *)
(* space, the value, a sequence of symbols; the blank line has the key "".  *)
(* Keys at indent 2 are names of letters and underscores.                   *)

Line(indent, key, value) == [indent |-> indent, key |-> key, value |-> value]

BlankLine == Line(0, "", <<>>)

\* "text" in double quotes
Quoted(text) == <<"\"">> \o text \o <<"\"">>

\* the regular expression ^groups:
StartsGroups(line) == line.indent = 0 /\ line.key = "groups"

\* the regular expression ^  <name>:
StartsEntry(line, name) == line.indent = 2 /\ line.key = name

\* the regular expressions ^  [a-z_0-9]+: and ^  [a-z_]+:
IsEntryLine(line) == line.indent = 2 /\ line.key # ""

\* the regular expression id: anywhere in the line
ContainsId(line) == line.key \in {"id", "topic_id"}

\* grep -q "^  $name:" "$RULES_FILE"
GroupExists(file, name) == \E i \in DOMAIN file : StartsEntry(file[i], name)

\* part_000:473-484, the lines of the new entry
GroupEntry(name, id, topic_id) ==
    <<BlankLine, Line(2, name, <<>>), Line(4, "id", Quoted(id)),
      Line(4, "platform", Quoted(<<"telegram">>))>>
    \o (IF topic_id # <<>> THEN <<Line(4, "topic_id", Quoted(topic_id))>> ELSE <<>>)
    \o <<Line(4, "name", Quoted(<<name>>))>>

\* sed "/^groups:/r entry": the entry read in after every line that matches
RECURSIVE SedReadAfterGroups(_, _)
SedReadAfterGroups(file, entry) ==
    IF file = <<>> THEN <<>>
    ELSE <<Head(file)>> \o (IF StartsGroups(Head(file)) THEN entry ELSE <<>>)
         \o SedReadAfterGroups(Tail(file), entry)

\* part_000:538-543, the awk program of cmd_remove: every entry line sets
\* in_block, a line is printed while in_block is not set
RECURSIVE AwkRemoveBlock(_, _, _)
AwkRemoveBlock(file, name, in_block) ==
    IF file = <<>> THEN <<>>
    ELSE LET line == Head(file)
             now == IF IsEntryLine(line) THEN StartsEntry(line, name) ELSE in_block
         IN  (IF now THEN <<>> ELSE <<line>>) \o AwkRemoveBlock(Tail(file), name, now)

\* $1 of awk: the first field of an entry line, without the indent
FirstField(line) == <<line.key, ":">>

\* scripts/group-manager.sh:139-147, the awk program of the other cmd_remove:
\* skip ends at a line ^  name: and starts where $1 equals "  <name>:"
RECURSIVE AwkRemoveSkip(_, _, _)
AwkRemoveSkip(file, name, skip) ==
    IF file = <<>> THEN <<>>
    ELSE LET line == Head(file)
             rest == Tail(file)
         IN  IF StartsEntry(line, "name") /\ skip
             THEN AwkRemoveSkip(rest, name, FALSE)
             ELSE IF IsEntryLine(line) /\ FirstField(line) = <<" ", " ", name, ":">>
             THEN AwkRemoveSkip(rest, name, TRUE)
             ELSE (IF skip THEN <<>> ELSE <<line>>) \o AwkRemoveSkip(rest, name, skip)

\* $2 of awk: the second field of a line, the value up to its first space
AwkField2(line) ==
    LET at == IndexOfFrom(line.value, <<" ">>, 0)
    IN  IF at = -1 THEN line.value ELSE SubSeq(line.value, 1, at)

\* tr -d '"'
TrDeleteQuotes(text) == SelectSeq(text, LAMBDA c : c # "\"")

\* part_000:560, what cmd_get prints: $2 of the first line with id: at or
\* after the first line ^  <name>:, without its quotes; nothing if there is none
GetOutput(file, name) ==
    LET hits == {k \in DOMAIN file :
                    /\ ContainsId(file[k])
                    /\ \E i \in 1..k : StartsEntry(file[i], name)}
    IN  IF hits = {} THEN <<>>
        ELSE TrDeleteQuotes(AwkField2(file[CHOOSE k \in hits : \A m \in hits : k <= m]))

-----------------------------------------------------------------------------
(* group-manager.sh: add, remove and get run on rules.yaml files with and   *)
(* without a groups: section.  call.before is the file the command found.   *)

GroupNames == {"ops", "team"}

Ids == { <<"-", "1">>, <<"7">> }

TopicIds == { <<>>, <<"4">> }

ConfiguredEntry(name) ==
    <<Line(2, name, <<>>), Line(4, "id", Quoted(<<"9">>)), Line(4, "name", Quoted(<<name>>))>>

\* the section that follows the groups in the file
MessageTypesSection ==
    <<Line(0, "message_types", <<>>), Line(2, "digest", <<>>), Line(4, "\"*\"", <<>>),
      Line(6, "allowed_in", <<"[", "ops", "]">>)>>

\* the groups: section with the named groups, with or without blank lines
GroupsSection(names, blanks) ==
    <<Line(0, "groups", <<>>)>>
    \o Concat([k \in DOMAIN names |->
                  ConfiguredEntry(names[k]) \o (IF blanks THEN <<BlankLine>> ELSE <<>>)])

StartFiles ==
    LET head == <<Line(0, "version", Quoted(<<"1.0">>))>>
        tails == { <<>>, MessageTypesSection }
        orders == { names \in SeqsUpTo(GroupNames, Cardinality(GroupNames)) :
                      \A k, m \in DOMAIN names : k # m => names[k] # names[m] }
    IN  { head \o tail : tail \in tails }
        \cup { head \o GroupsSection(names, blanks) \o tail :
                 names \in orders, blanks \in BOOLEAN, tail \in tails }

Exit(code, out) == [exit |-> code, out |-> out]

cmd_add(name, id, topic_id) ==
    /\ pc = "idle"
    /\ pc' = "add"
    /\ call' = [name |-> name, id |-> id, topic_id |-> topic_id, before |-> rulesFile]
    /\ IF GroupExists(rulesFile, name)
       THEN /\ ret' = Exit(1, <<"Group '", name, "' already exists">>)
            /\ UNCHANGED rulesFile
       ELSE /\ rulesFile' = SedReadAfterGroups(rulesFile, GroupEntry(name, id, topic_id))
            /\ Len(rulesFile') <= MaxLines
            /\ ret' = Exit(0, <<"Group '", name, "' added successfully">>)
    /\ UNCHANGED <<rules, lastIndex, locals, hook, bossLog>>

cmd_remove(name) ==
    /\ pc = "idle"
    /\ pc' = "remove"
    /\ call' = [name |-> name, before |-> rulesFile]
    /\ IF ~GroupExists(rulesFile, name)
       THEN /\ ret' = Exit(1, <<"Group '", name, "' not found">>)
            /\ UNCHANGED rulesFile
       ELSE /\ rulesFile' = AwkRemoveBlock(rulesFile, name, FALSE)
            /\ ret' = Exit(0, <<"Group '", name, "' removed">>)
    /\ UNCHANGED <<rules, lastIndex, locals, hook, bossLog>>

\* scripts/group-manager.sh:125-154, the cmd_remove of the other script version
cmd_remove_skip(name) ==
    /\ pc = "idle"
    /\ pc' = "remove"
    /\ call' = [name |-> name, before |-> rulesFile]
    /\ IF ~GroupExists(rulesFile, name)
       THEN /\ ret' = Exit(1, <<"Group '", name, "' not found">>)
            /\ UNCHANGED rulesFile
       ELSE /\ rulesFile' = AwkRemoveSkip(rulesFile, name, FALSE)
            /\ ret' = Exit(0, <<"Group '", name, "' removed">>)
    /\ UNCHANGED <<rules, lastIndex, locals, hook, bossLog>>

cmd_get(name) ==
    /\ pc = "idle"
    /\ pc' = "get"
    /\ call' = [name |-> name, before |-> rulesFile]
    /\ ret' = Exit(0, GetOutput(rulesFile, name))
    /\ UNCHANGED <<rules, lastIndex, locals, hook, bossLog, rulesFile>>

InitGroups ==
    /\ rules = <<>>
    /\ lastIndex = <<>>
    /\ pc = "idle"
    /\ call = <<>>
    /\ locals = NoLocals
    /\ ret = <<>>
    /\ hook = NoHook
    /\ bossLog = <<>>
    /\ rulesFile \in StartFiles

NextGroups ==
    \/ \E name \in GroupNames, id \in Ids, topic_id \in TopicIds : cmd_add(name, id, topic_id)
    \/ \E name \in GroupNames : cmd_remove(name)
    \/ \E name \in GroupNames : cmd_remove_skip(name)
    \/ \E name \in GroupNames : cmd_get(name)
    \/ Discard

SpecGroups == InitGroups /\ [][NextGroups]_vars

\* the file without the entry line of the group and the property lines that
\* directly follow it
RECURSIVE WithoutEntry(_, _, _)
WithoutEntry(file, name, inEntry) ==
    IF file = <<>> THEN <<>>
    ELSE LET line == Head(file)
         IN  IF StartsEntry(line, name) THEN WithoutEntry(Tail(file), name, TRUE)
             ELSE IF inEntry /\ line.indent > 2 /\ line.key # ""
             THEN WithoutEntry(Tail(file), name, TRUE)
             ELSE <<line>> \o WithoutEntry(Tail(file), name, FALSE)

\* C18: remove <name> deletes the entry line of the named group and its
\* indented property lines, and leaves every other line of rules.yaml as it was.
C18_RemoveOnlyTheEntry ==
    (pc = "remove" /\ ret.exit = 0)
        => rulesFile = WithoutEntry(call.before, call.name, FALSE)

\* C19: after add <name> <id> reports success, get <name> outputs <id>,
\* whether or not the file had a groups: section; add for a name that exists
\* exits 1 and leaves the file unchanged.
C19_AddThenGet ==
    pc = "add" =>
        IF GroupExists(call.before, call.name)
        THEN ret.exit = 1 /\ rulesFile = call.before
        ELSE ret.exit = 0 /\ GetOutput(rulesFile, call.name) = call.id

\* the same, for the files that have a groups: section
C19_AddThenGetWithGroupsSection ==
    (\E i \in DOMAIN rulesFile : StartsGroups(rulesFile[i])) => C19_AddThenGet

-----------------------------------------------------------------------------
(* send.sh.  Names are spelled in parts, so that grep finds one name        *)
(* inside another: work inside work_group.                                  *)

\* the text of a symbol, in parts
Spelled(symbol) == IF symbol = "work_group" THEN <<"work", "_group">> ELSE <<symbol>>

\* the text of a line after its indent
LineText(line) ==
    IF line.key = "" THEN <<>>
    ELSE Spelled(line.key) \o <<":">>
         \o Concat([k \in DOMAIN line.value |-> Spelled(line.value[k])])

\* echo "$line" | grep -q "$pattern"
GrepQ(line, pattern) == Includes(LineText(line), Spelled(pattern))

\* part_000:76-122, get_destination_info: the id and topic_id of the block
\* ^  <dest>:$, returned at the next entry line or at the end of the file
RECURSIVE get_destination_info(_, _, _, _, _)
get_destination_info(file, dest_name, in_block, found_id, found_topic) ==
    IF file = <<>>
    THEN [ok |-> found_id # <<>>, id |-> found_id, topic_id |-> found_topic]
    ELSE LET line == Head(file)
             rest == Tail(file)
         IN  IF StartsEntry(line, dest_name) /\ line.value = <<>>
             THEN get_destination_info(rest, dest_name, TRUE, found_id, found_topic)
             ELSE IF in_block /\ IsEntryLine(line) /\ line.value = <<>>
             THEN IF found_id # <<>>
                  THEN [ok |-> TRUE, id |-> found_id, topic_id |-> found_topic]
                  ELSE get_destination_info(rest, dest_name, FALSE, found_id, found_topic)
             ELSE IF in_block /\ line.indent = 4 /\ line.key = "id"
             THEN get_destination_info(rest, dest_name, in_block, line.value, found_topic)
             ELSE IF in_block /\ line.indent = 4 /\ line.key = "topic_id"
             THEN get_destination_info(rest, dest_name, in_block, found_id, line.value)
             ELSE get_destination_info(rest, dest_name, in_block, found_id, found_topic)

\* part_000:215, the awk program: the lines from ^  <type>: up to the next
\* entry line that is not ^  <type>:
RECURSIVE category_rules(_, _, _)
category_rules(file, type, flag) ==
    IF file = <<>> THEN <<>>
    ELSE LET line == Head(file)
             now == flag \/ StartsEntry(line, type)
         IN  IF IsEntryLine(line) /\ now /\ ~StartsEntry(line, type) THEN <<>>
             ELSE (IF now THEN <<line>> ELSE <<>>) \o category_rules(Tail(file), type, now)

\* grep "<key>:" | head -1: the first line with the key, the empty line if none
FirstLineWith(lines, key) ==
    LET hits == {k \in DOMAIN lines : lines[k].key = key}
    IN  IF hits = {} THEN BlankLine ELSE lines[CHOOSE k \in hits : \A m \in hits : k <= m]

\* part_000:35, OVERRIDE_CODE
SendOverrideCode == "BOSS_OVERRIDE"

\* part_000:255-284, the dry-run and send output
SendOutput(destination, info, dry_run) ==
    IF dry_run
    THEN Exit(0, <<"WOULD_SEND_TO: ", destination, "(">> \o info.id
                   \o (IF info.topic_id # <<>> THEN <<", topic: ">> \o info.topic_id ELSE <<>>)
                   \o <<")">>)
    ELSE Exit(0, <<"SEND_TO: ", destination, "SEND_ID: ">> \o info.id
                   \o (IF info.topic_id # <<>> THEN <<"TOPIC_ID: ">> \o info.topic_id ELSE <<>>))

\* part_000:180-284, send.sh after its arguments are parsed
SendSh(file, message, destination, type, subtype, dry_run) ==
    LET info == get_destination_info(file, destination, FALSE, <<>>, <<>>)
        rules_of_category == category_rules(file, type, FALSE)
        allowed_in == FirstLineWith(rules_of_category, "allowed_in")
        blocked_in == FirstLineWith(rules_of_category, "blocked_in")
    IN  IF ~info.ok \/ info.id = <<"TBD">> THEN Exit(2, <<>>)
        ELSE IF Includes(message, <<SendOverrideCode>>)
        THEN SendOutput(destination, info, dry_run)
        ELSE IF rules_of_category = <<>> THEN Exit(2, <<>>)
        ELSE IF GrepQ(blocked_in, destination) THEN Exit(1, <<"BLOCKED">>)
        ELSE IF ~GrepQ(allowed_in, destination) /\ ~GrepQ(allowed_in, "\"*\"")
        THEN Exit(1, <<"BLOCKED">>)
        ELSE SendOutput(destination, info, dry_run)

-----------------------------------------------------------------------------
(* send.sh run on rules.yaml files whose digest category holds the rule "*" *)
(* and the rule reddit, each with or without its two list lines             *)

\* [a, b] as the value of a list line
ListValue(names) ==
    <<"[">> \o Concat([k \in DOMAIN names |->
                          (IF k > 1 THEN <<",", " ">> ELSE <<>>) \o <<names[k]>>])
    \o <<"]">>

AllowedLists == { <<"boss">>, <<"work_group">>, <<"\"*\"">> }

BlockedLists == { <<>>, <<"work">>, <<"boss", "work_group">> }

\* the line of the list, or no line
ListLines(key, lists) == { <<>> } \cup { <<Line(6, key, ListValue(l))>> : l \in lists }

SendFiles ==
    { <<Line(0, "destinations", <<>>)>>
      \o ConfiguredEntry("boss") \o ConfiguredEntry("work") \o ConfiguredEntry("work_group")
      \o <<Line(0, "message_types", <<>>), Line(2, "digest", <<>>), Line(4, "\"*\"", <<>>)>>
      \o a1 \o b1 \o <<Line(4, "reddit", <<>>)>> \o a2 \o b2 :
        a1 \in ListLines("allowed_in", AllowedLists),
        b1 \in ListLines("blocked_in", BlockedLists),
        a2 \in ListLines("allowed_in", AllowedLists),
        b2 \in ListLines("blocked_in", BlockedLists) }

SendDestinations == {"boss", "work", "work_group", "nowhere"}

SendTypes == {"digest", "alert"}

SendSubtypes == {"content", "reddit"}

SendMessages == { <<"hello">>, <<"hello ", SendOverrideCode>> }

send_sh(message, destination, type, subtype, dry_run) ==
    /\ pc = "idle"
    /\ pc' = "send"
    /\ call' = [message |-> message, destination |-> destination, type |-> type,
                subtype |-> subtype, dry_run |-> dry_run]
    /\ ret' = SendSh(rulesFile, message, destination, type, subtype, dry_run)
    /\ UNCHANGED <<rules, lastIndex, locals, hook, bossLog, rulesFile>>

InitSend ==
    /\ rules = <<>>
    /\ lastIndex = <<>>
    /\ pc = "idle"
    /\ call = <<>>
    /\ locals = NoLocals
    /\ ret = <<>>
    /\ hook = NoHook
    /\ bossLog = <<>>
    /\ rulesFile \in SendFiles

NextSend ==
    \/ \E message \in SendMessages, destination \in SendDestinations, type \in SendTypes,
          subtype \in SendSubtypes, dry_run \in BOOLEAN :
             send_sh(message, destination, type, subtype, dry_run)
    \/ Discard

SpecSend == InitSend /\ [][NextSend]_vars

\* the lines of the rule under the key "    <subtype>:" of a category
RECURSIVE RuleLines(_, _, _)
RuleLines(lines, subtype, inRule) ==
    IF lines = <<>> THEN <<>>
    ELSE LET line == Head(lines)
             now == IF line.indent = 4 THEN line.key = subtype ELSE inRule
         IN  (IF now THEN <<line>> ELSE <<>>) \o RuleLines(Tail(lines), subtype, now)

\* the rule --type and --subtype select: the subtype's own, else the rule "*"
SelectedRule(file, type, subtype) ==
    LET category == category_rules(file, type, FALSE)
    IN  IF RuleLines(category, subtype, FALSE) # <<>>
        THEN RuleLines(category, subtype, FALSE)
        ELSE RuleLines(category, "\"*\"", FALSE)

\* the destination is an element of the list on the line
ListedOn(line, destination) == \E k \in DOMAIN line.value : line.value[k] = destination

\* the output is a send or a dry-run send
IsSendOutput(out) == out # <<>> /\ out[1] \in {"SEND_TO: ", "WOULD_SEND_TO: "}

\* a send.sh run has ended whose message holds no override code
SentWithoutOverride == pc = "send" /\ ~Includes(call.message, <<SendOverrideCode>>)

\* C20: without an override code in the message, send.sh never reaches the
\* send output for a destination listed in blocked_in of the rule that --type
\* and --subtype select; for a configured destination it prints BLOCKED and
\* exits 1, also when the destination is in allowed_in.
C20_BlockedNeverSent ==
    (SentWithoutOverride
       /\ ListedOn(FirstLineWith(SelectedRule(rulesFile, call.type, call.subtype),
                                 "blocked_in"), call.destination))
        => /\ ~IsSendOutput(ret.out)
           /\ GroupExists(rulesFile, call.destination) => ret = Exit(1, <<"BLOCKED">>)

\* the same, for the first blocked_in line of the category, whichever rule
\* of the category it belongs to
C20_BlockedInFirstListNeverSent ==
    (SentWithoutOverride
       /\ ListedOn(FirstLineWith(category_rules(rulesFile, call.type, FALSE), "blocked_in"),
                   call.destination))
        => /\ ~IsSendOutput(ret.out)
           /\ GroupExists(rulesFile, call.destination) => ret = Exit(1, <<"BLOCKED">>)

====
